---------------------------- MODULE Spec2Model ----------------------------
(***************************************************************************)
(* A model of src/main.js: the three.js host program (init, animate, the   *)
(* requestAnimationFrame loop) and the GLSL fragment shader it installs    *)
(* (intersectDisc, reflect, getColorOfBackground, main).                   *)
(*                                                                         *)
(* Numbers.  GLSL floats and JavaScript numbers are modelled as exact      *)
(* rationals <<numerator, denominator>> in lowest terms, denominator > 0;  *)
(* <<0, 0>> is a non-finite value (the result of a division by zero), and  *)
(* it propagates through arithmetic and fails every comparison, as NaN     *)
(* does.  Rounding is not modelled.  A square root (GLSL length) is kept   *)
(* symbolically as the rational under the root.  An angle (GLSL atan,      *)
(* acos) is kept as its octant: exactly k*pi/4, or the open interval       *)
(* between k*pi/4 and (k+1)*pi/4.                                          *)
(***************************************************************************)
EXTENDS Integers, FiniteSets, Sequences, TLC

-----------------------------------------------------------------------------
(* Bounds of the model *)

\* directions and near points are drawn from the grid -MaxCoord..MaxCoord cubed
MaxCoord == 1

\* disc radii are drawn from 0..MaxRadius
MaxRadius == 2

\* animation ticks modelled
MaxTicks == 6

-----------------------------------------------------------------------------
(* Rational arithmetic *)

Abs(n) == IF n < 0 THEN -n ELSE n

RECURSIVE GCD(_, _)
GCD(a, b) == IF b = 0 THEN a ELSE GCD(b, a % b)

NonFinite == <<0, 0>>

IsFinite(q) == q[2] # 0

\* lowest terms, positive denominator
Norm(n, m) ==
    IF m = 0 THEN NonFinite
    ELSE LET g == GCD(Abs(n), Abs(m))
             sg == IF m < 0 THEN -1 ELSE 1
         IN  <<sg * (n \div g), sg * (m \div g)>>

R(n) == <<n, 1>>

RAdd(a, b) == IF IsFinite(a) /\ IsFinite(b)
              THEN Norm(a[1] * b[2] + b[1] * a[2], a[2] * b[2]) ELSE NonFinite

RSub(a, b) == IF IsFinite(a) /\ IsFinite(b)
              THEN Norm(a[1] * b[2] - b[1] * a[2], a[2] * b[2]) ELSE NonFinite

RMul(a, b) == IF IsFinite(a) /\ IsFinite(b)
              THEN Norm(a[1] * b[1], a[2] * b[2]) ELSE NonFinite

\* a/b; a division by zero gives a non-finite value
RDiv(a, b) == IF IsFinite(a) /\ IsFinite(b)
              THEN Norm(a[1] * b[2], a[2] * b[1]) ELSE NonFinite

RLess(a, b) == IsFinite(a) /\ IsFinite(b) /\ a[1] * b[2] < b[1] * a[2]

RLeq(a, b) == IsFinite(a) /\ IsFinite(b) /\ a[1] * b[2] <= b[1] * a[2]

RIsZero(a) == IsFinite(a) /\ a[1] = 0

-----------------------------------------------------------------------------
(* vec3 *)

Vec(x, y, z) == <<R(x), R(y), R(z)>>

VAdd(u, v) == <<RAdd(u[1], v[1]), RAdd(u[2], v[2]), RAdd(u[3], v[3])>>

VSub(u, v) == <<RSub(u[1], v[1]), RSub(u[2], v[2]), RSub(u[3], v[3])>>

\* vec3 * float
VScale(u, k) == <<RMul(u[1], k), RMul(u[2], k), RMul(u[3], k)>>

\* vec3 / float
VDiv(u, k) == <<RDiv(u[1], k), RDiv(u[2], k), RDiv(u[3], k)>>

VNeg(u) == VSub(Vec(0, 0, 0), u)

VFinite(u) == IsFinite(u[1]) /\ IsFinite(u[2]) /\ IsFinite(u[3])

dot(u, v) == RAdd(RAdd(RMul(u[1], v[1]), RMul(u[2], v[2])), RMul(u[3], v[3]))

\* length(v) = sqrt(dot(v, v)), kept as the rational under the root
length(v) == [sq |-> dot(v, v)]

\* length <= r, for a symbolic root: sqrt(q) <= r iff r >= 0 and q <= r*r
RootLeq(l, r) == RLeq(R(0), r) /\ RLeq(l.sq, RMul(r, r))

-----------------------------------------------------------------------------
(* Fragment shader: intersectDisc *)

\* variant: the step along the ray is not divided by dN
IntersectDisc_NoDivide(s, d, c, nHat, r) ==
    LET deltaN == dot(VSub(c, s), nHat)
        dN == dot(d, nHat)
        i == VAdd(s, VScale(d, deltaN))
    IN  IF RLess(R(0), RMul(dN, deltaN))
        THEN IF RootLeq(length(VSub(i, c)), r)
             THEN [hit |-> TRUE, s |-> i, divisors |-> {}]
             ELSE [hit |-> FALSE, s |-> s, divisors |-> {}]
        ELSE [hit |-> FALSE, s |-> s, divisors |-> {}]

\* variant: the radius test is strict
IntersectDisc_InsideOnly(s, d, c, nHat, r) ==
    LET deltaN == dot(VSub(c, s), nHat)
        dN == dot(d, nHat)
        i == VAdd(s, VScale(VDiv(d, dN), deltaN))
    IN  IF RLess(R(0), RMul(dN, deltaN))
        THEN IF RLess(R(0), r) /\ RLess(length(VSub(i, c)).sq, RMul(r, r))
             THEN [hit |-> TRUE, s |-> i, divisors |-> {dN}]
             ELSE [hit |-> FALSE, s |-> s, divisors |-> {dN}]
        ELSE [hit |-> FALSE, s |-> s, divisors |-> {}]

\* variant: the division is evaluated before the forward test
IntersectDisc_DivideFirst(s, d, c, nHat, r) ==
    LET deltaN == dot(VSub(c, s), nHat)
        dN == dot(d, nHat)
        i == VAdd(s, VScale(VDiv(d, dN), deltaN))
    IN  IF RLess(R(0), RMul(dN, deltaN))
        THEN IF RootLeq(length(VSub(i, c)), r)
             THEN [hit |-> TRUE, s |-> i, divisors |-> {dN}]
             ELSE [hit |-> FALSE, s |-> s, divisors |-> {dN}]
        ELSE [hit |-> FALSE, s |-> s, divisors |-> {dN}]

\* variant: s is moved to the plane before the radius test
IntersectDisc_EagerWrite(s, d, c, nHat, r) ==
    LET deltaN == dot(VSub(c, s), nHat)
        dN == dot(d, nHat)
        i == VAdd(s, VScale(VDiv(d, dN), deltaN))
    IN  IF RLess(R(0), RMul(dN, deltaN))
        THEN IF RootLeq(length(VSub(i, c)), r)
             THEN [hit |-> TRUE, s |-> i, divisors |-> {dN}]
             ELSE [hit |-> FALSE, s |-> i, divisors |-> {dN}]
        ELSE [hit |-> FALSE, s |-> s, divisors |-> {}]

\* variant: only rays travelling against the normal are tested
IntersectDisc_FrontFaceOnly(s, d, c, nHat, r) ==
    LET deltaN == dot(VSub(c, s), nHat)
        dN == dot(d, nHat)
        i == VAdd(s, VScale(VDiv(d, dN), deltaN))
    IN  IF RLess(dN, R(0)) /\ RLess(deltaN, R(0))
        THEN IF RootLeq(length(VSub(i, c)), r)
             THEN [hit |-> TRUE, s |-> i, divisors |-> {dN}]
             ELSE [hit |-> FALSE, s |-> s, divisors |-> {dN}]
        ELSE [hit |-> FALSE, s |-> s, divisors |-> {}]

\* the disc test of main.js, lines 118-152.  The result holds the boolean
\* returned, the value of the inout parameter s on return, and the divisors
\* of the float divisions the call evaluated.
IntersectDisc(s, d, c, nHat, r) ==
    LET deltaN == dot(VSub(c, s), nHat)                  \* line 126
        dN == dot(d, nHat)                               \* line 129
        i == VAdd(s, VScale(VDiv(d, dN), deltaN))        \* line 136: s + d/dN*deltaN
    IN  IF RLess(R(0), RMul(dN, deltaN))                 \* line 132
        THEN IF RootLeq(length(VSub(i, c)), r)           \* line 139
             THEN [hit |-> TRUE, s |-> i, divisors |-> {dN}]       \* lines 143-146
             ELSE [hit |-> FALSE, s |-> s, divisors |-> {dN}]      \* line 151
        ELSE [hit |-> FALSE, s |-> s, divisors |-> {}]             \* line 151

-----------------------------------------------------------------------------
(* Fragment shader: reflect (GLSL built-in, used at line 181) *)

\* variant: the factor 2 is missing
reflect_Halved(I, N) == VSub(I, VScale(N, dot(N, I)))

\* reflect(I, N) = I - 2.0 * dot(N, I) * N
reflect(I, N) == VSub(I, VScale(N, RMul(R(2), dot(N, I))))

-----------------------------------------------------------------------------
(* Fragment shader: getColorOfBackground *)

\* A number of 1e-10 units in two limbs <<h, l>> = h * 100000 + l, 0 <= l < 100000
Limbs(h, l) == <<h + (l \div 100000), l % 100000>>

LimbMul(k, x) == Limbs(k * x[1], k * x[2])

LimbLeq(x, y) == x[1] < y[1] \/ (x[1] = y[1] /\ x[2] <= y[2])

\* #define PI 3.1415926538 (line 108)
PI == <<314159, 26538>>

\* pi itself lies strictly between 3.1415926535 and 3.1415926536
PiLow == <<314159, 26535>>

PiHigh == <<314159, 26536>>

\* An angle: exactly k*pi/4, or (open) some value strictly between k*pi/4 and
\* (k+1)*pi/4, or (nan) no number at all
Exactly(k) == [nan |-> FALSE, k |-> k, open |-> FALSE]

Between(k) == [nan |-> FALSE, k |-> k, open |-> TRUE]

NaNAngle == [nan |-> TRUE, k |-> 0, open |-> FALSE]

\* what an evaluation with undefined results may produce
UndefinedAngle == {NaNAngle} \cup {Exactly(k) : k \in -4 .. 4} \cup {Between(k) : k \in -4 .. 3}

\* GLSL atan(y, x): the angle of the point (x, y), in [-pi, pi]; the results are
\* undefined if x and y are both 0.  A zero y stands for +0.0 and -0.0 alike,
\* so for x < 0 both pi and -pi are results.  The set of results is returned.
atan(y, x) ==
    IF ~ (IsFinite(y) /\ IsFinite(x)) THEN {NaNAngle}
    ELSE LET ay == Abs(y[1]) * x[2]
             ax == Abs(x[1]) * y[2]
         IN  IF x[1] = 0 /\ y[1] = 0 THEN UndefinedAngle
             ELSE IF y[1] = 0 THEN (IF x[1] > 0 THEN {Exactly(0)} ELSE {Exactly(4), Exactly(-4)})
             ELSE IF x[1] = 0 THEN (IF y[1] > 0 THEN {Exactly(2)} ELSE {Exactly(-2)})
             ELSE IF x[1] > 0 /\ y[1] > 0
                  THEN (IF ay < ax THEN {Between(0)} ELSE IF ay = ax THEN {Exactly(1)} ELSE {Between(1)})
             ELSE IF x[1] < 0 /\ y[1] > 0
                  THEN (IF ay > ax THEN {Between(2)} ELSE IF ay = ax THEN {Exactly(3)} ELSE {Between(3)})
             ELSE IF x[1] > 0
                  THEN (IF ay < ax THEN {Between(-1)} ELSE IF ay = ax THEN {Exactly(-1)} ELSE {Between(-2)})
             ELSE (IF ay > ax THEN {Between(-3)} ELSE IF ay = ax THEN {Exactly(-3)} ELSE {Between(-4)})

\* d.y/l for l = length(d): the quotient y/sqrt(q), kept as the pair; non-finite
\* when the root is zero
DivByLength(y, l) ==
    IF RIsZero(l.sq) \/ ~ IsFinite(l.sq) \/ ~ IsFinite(y) THEN [finite |-> FALSE, num |-> R(0), sq |-> R(1)]
    ELSE [finite |-> TRUE, num |-> y, sq |-> l.sq]

\* GLSL acos(t), in [0, pi], for t = num/sqrt(sq); undefined if |t| > 1
acos(t) ==
    IF ~ t.finite THEN {NaNAngle}
    ELSE LET y2 == RMul(t.num, t.num)
             pos == RLess(R(0), t.num)
         IN  IF RLess(t.sq, y2) THEN UndefinedAngle
             ELSE IF RIsZero(t.num) THEN {Exactly(2)}
             ELSE IF y2 = t.sq THEN (IF pos THEN {Exactly(0)} ELSE {Exactly(4)})
             ELSE IF RMul(R(2), y2) = t.sq THEN (IF pos THEN {Exactly(1)} ELSE {Exactly(3)})
             ELSE IF RLess(t.sq, RMul(R(2), y2)) THEN (IF pos THEN {Between(0)} ELSE {Between(3)})
             ELSE (IF pos THEN {Between(1)} ELSE {Between(2)})

\* A texture coordinate of line 161, kept as the angle a and the integers p, q:
\* the horizontal one is (a + p*PI)/(q*PI) with p = 1, q = 2 (phi/(2.*PI), phi
\* = atan(d.z, d.x) + PI) and the vertical one is 1 - (a + p*PI)/(q*PI) with
\* p = 0, q = 1 (1.-theta/PI).
TexCoord(a, p, q) == [angle |-> a, p |-> p, q |-> q]

\* the coordinate is a number in [0, 1]: 0 <= a + p*PI <= q*PI for every value
\* the angle a stands for
InUnit(t) ==
    /\ ~ t.angle.nan
    /\ LET lo == t.angle.k
           hi == IF t.angle.open THEN t.angle.k + 1 ELSE t.angle.k
       IN  /\ IF lo >= 0 THEN TRUE
              ELSE LimbLeq(LimbMul(-lo, PiHigh), LimbMul(4 * t.p, PI))
           /\ IF hi <= 0 THEN TRUE
              ELSE LimbLeq(LimbMul(hi, PiHigh), LimbMul(4 * (t.q - t.p), PI))

\* getColorOfBackground (lines 154-162): the texture coordinates it samples at
\* (the set of possible results)
GetColorOfBackground(d) ==
    LET l == length(d)                                     \* line 156
    IN  { [u |-> TexCoord(phi, 1, 2), v |-> TexCoord(theta, 0, 1)] :
            phi \in atan(d[3], d[1]),                      \* line 157
            theta \in acos(DivByLength(d[2], l)) }         \* line 158

-----------------------------------------------------------------------------
(* Fragment shader: main *)

discCentre == Vec(3, 0, 0)

discNormal == Vec(1, 0, 0)

discRadius == R(1)

\* variant: the direction is not reflected on a hit
Main_NoReflect(cameraPosition, intersectionPoint) ==
    LET s == cameraPosition
        d == VSub(intersectionPoint, cameraPosition)
        res == IntersectDisc(s, d, discCentre, discNormal, discRadius)
    IN  [s |-> res.s, d |-> d, hit |-> res.hit, divisors |-> res.divisors]

\* main (lines 164-182): the ray after the disc test and the reflection; d is
\* the direction handed to getColorOfBackground at line 185
Main(cameraPosition, intersectionPoint) ==
    LET s == cameraPosition                                \* line 166
        d == VSub(intersectionPoint, cameraPosition)       \* line 169
        nHat == discNormal                                 \* line 172
        res == IntersectDisc(s, d, discCentre, nHat, discRadius)
    IN  [s |-> res.s,
         d |-> IF res.hit THEN reflect(d, nHat) ELSE d,    \* line 181
         hit |-> res.hit, divisors |-> res.divisors]

-----------------------------------------------------------------------------
(* State *)

VARIABLES
    pc,                 \* shader: "start", then "tested"/"reflected"/"reflected2" or "lookup"/"done"
    s, d,               \* shader: the ray start point and direction
    c, nHat, r,         \* shader: the disc
    sIn, dIn,           \* shader: s and d as they were before the evaluation
    hit,                \* shader: what intersectDisc returned
    divisors,           \* shader: the divisors of the divisions evaluated
    tex,                \* shader: the texture coordinates sampled
    intersectionPoint,  \* the varying of the pixel
    cameraPosition,     \* camera.position, the shader's cameraPosition uniform
    pcTop,              \* host: position in the module's top level
    assigned,           \* host: the module's globals that have been assigned
    scene,              \* host: the objects added to the scene
    cubeRotation,       \* host: cube.rotation, x and y
    pending,            \* host: requestAnimationFrame callbacks not yet run
    ticks,              \* host: invocations of animate
    renders,            \* host: renderer.render calls
    frame               \* host: per pixel, the direction the last render sampled

shaderVars == <<pc, s, d, c, nHat, r, sIn, dIn, hit, divisors, tex, intersectionPoint>>

hostVars == <<pcTop, assigned, scene, cubeRotation, pending, ticks, renders, frame>>

vars == <<shaderVars, cameraPosition, hostVars>>

Grid(n) == {Vec(x, y, z) : x \in -n .. n, y \in -n .. n, z \in -n .. n}

Origin == Vec(0, 0, 0)

NoTex == [u |-> TexCoord(NaNAngle, 0, 0), v |-> TexCoord(NaNAngle, 0, 0)]

NoFrame == << >>

\* the shader's variables while no pixel is being evaluated
ShaderIdle ==
    /\ pc = "idle"
    /\ s = Origin /\ d = Origin /\ sIn = Origin /\ dIn = Origin
    /\ c = discCentre /\ nHat = discNormal /\ r = discRadius
    /\ hit = FALSE /\ divisors = {} /\ tex = NoTex
    /\ intersectionPoint = Origin

\* the host's variables before the module's top level has run
HostUnloaded ==
    /\ pcTop = "load"
    /\ assigned = {}
    /\ scene = {}
    /\ cubeRotation = [x |-> R(0), y |-> R(0)]
    /\ pending = 0 /\ ticks = 0 /\ renders = 0
    /\ frame = NoFrame

-----------------------------------------------------------------------------
(* SpecDisc: intersectDisc and reflect applied to rays and discs drawn from
   bounded sets *)

Starts ==
    {Vec(x, y, z) : x \in {-1, 0, 4, 5}, y \in {-1, 0, 1}, z \in {0, 1}} \cup {Vec(0, 10, 0)}

Directions == Grid(MaxCoord) \cup {Vec(5, -10, 0), Vec(-2, 1, 0)}

Centres == {discCentre, Origin}

\* unit normals: |nHat| = 1
Normals ==
    {Vec(1, 0, 0), Vec(-1, 0, 0), Vec(0, 0, 1),
     <<<<3, 5>>, <<4, 5>>, R(0)>>, <<<<-3, 5>>, <<-4, 5>>, R(0)>>,
     <<R(0), <<4, 5>>, <<-3, 5>>>>}

Radii == {R(k) : k \in 0 .. MaxRadius}

InitDisc ==
    /\ pc = "start"
    /\ s \in Starts /\ d \in Directions
    /\ c \in Centres /\ nHat \in Normals /\ r \in Radii
    /\ sIn = s /\ dIn = d
    /\ hit = FALSE /\ divisors = {} /\ tex = NoTex
    /\ intersectionPoint = Origin
    /\ cameraPosition = Origin
    /\ HostUnloaded

\* a call intersectDisc(s, d, c, nHat, r) with s passed inout
CallIntersectDisc ==
    /\ pc = "start"
    /\ LET res == IntersectDisc(s, d, c, nHat, r)
       IN  /\ hit' = res.hit
           /\ s' = res.s
           /\ divisors' = res.divisors
    /\ pc' = "tested"
    /\ UNCHANGED <<d, c, nHat, r, sIn, dIn, tex, intersectionPoint, cameraPosition, hostVars>>

\* d = reflect(d, nHat), a first and a second time
ApplyReflect ==
    /\ pc \in {"tested", "reflected"}
    /\ d' = reflect(d, nHat)
    /\ pc' = IF pc = "tested" THEN "reflected" ELSE "reflected2"
    /\ UNCHANGED <<s, c, nHat, r, sIn, dIn, hit, divisors, tex, intersectionPoint,
                   cameraPosition, hostVars>>

NextDisc == CallIntersectDisc \/ ApplyReflect

SpecDisc == InitDisc /\ [][NextDisc]_vars

-----------------------------------------------------------------------------
(* Claims about intersectDisc and reflect, under SpecDisc *)

Tested == pc \in {"tested", "reflected", "reflected2"}

\* the quantities of the call, from the values the caller passed in
deltaNIn == dot(VSub(c, sIn), nHat)

dNIn == dot(dIn, nHat)

Forward == RLess(R(0), RMul(dNIn, deltaNIn))

\* the plane-crossing point s + d*(deltaN/dN)
PlanePoint == VAdd(sIn, VScale(dIn, RDiv(deltaNIn, dNIn)))

\* |p - c| <= r, by squares
WithinRadius(p) == RLeq(R(0), r) /\ RLeq(dot(VSub(p, c), VSub(p, c)), RMul(r, r))

\* C1: whenever intersectDisc returns true, the point written back into s lies
\* in the disc's plane, dot(s - c, nHat) = 0, and within the disc's radius,
\* |s - c| <= r.
C1_HitPointOnDisc ==
    Tested /\ hit => /\ dot(VSub(s, c), nHat) = R(0)
                     /\ WithinRadius(s)

\* a hit away from the centre, on a disc whose normal is not an axis, that moved s
C1_Witness ==
    /\ pc = "tested" /\ hit
    /\ nHat = <<<<3, 5>>, <<4, 5>>, R(0)>>
    /\ s # sIn /\ s # c

\* C2: intersectDisc returns true exactly when dN*deltaN > 0 and the crossing
\* point i = s + d*(deltaN/dN) satisfies |i - c| <= r.  The ray from (0,10,0)
\* along (5,-10,0) crosses the plane of the disc (3,0,0), (1,0,0), 1 forward
\* but outside the radius and is no hit; a crossing behind the origin
\* (dN*deltaN < 0) is no hit.
C2_HitIffForwardWithinRadius ==
    Tested =>
        /\ hit <=> (Forward /\ WithinRadius(PlanePoint))
        /\ RLess(RMul(dNIn, deltaNIn), R(0)) => ~ hit
        /\ (/\ sIn = Vec(0, 10, 0) /\ dIn = Vec(5, -10, 0)
            /\ c = Vec(3, 0, 0) /\ nHat = Vec(1, 0, 0) /\ r = R(1))
           => (Forward /\ PlanePoint = Vec(3, 4, 0) /\ ~ hit)

\* the ray of the example, tested
C2_Witness ==
    /\ pc = "tested" /\ ~ hit
    /\ sIn = Vec(0, 10, 0) /\ dIn = Vec(5, -10, 0)
    /\ c = Vec(3, 0, 0) /\ nHat = Vec(1, 0, 0) /\ r = R(1)

\* C3: for a direction parallel to the disc's plane, dot(d, nHat) = 0,
\* intersectDisc returns false and evaluates no division; no call divides by
\* zero, and s stays finite.
C3_ParallelNoDivision ==
    Tested =>
        /\ RIsZero(dNIn) => (~ hit /\ divisors = {})
        /\ \A q \in divisors : ~ RIsZero(q)
        /\ VFinite(s)

\* a non-zero direction parallel to the plane, from a start point off the plane
C3_Witness ==
    /\ pc = "tested" /\ ~ hit
    /\ RIsZero(dNIn) /\ dIn # Origin /\ ~ RIsZero(deltaNIn)

\* C4: the call changes s on acceptance only: on true s is the crossing point,
\* on false s is as before; d, the centre, the normal and the radius are not
\* changed by the call.
C4_StartPointFrame ==
    [][(pc = "start" /\ pc' = "tested") =>
          /\ hit' => s' = PlanePoint
          /\ ~ hit' => s' = s
          /\ d' = d /\ c' = c /\ nHat' = nHat /\ r' = r]_vars

\* a forward crossing outside the radius: rejected, s as before
C4_Witness ==
    /\ pc = "tested" /\ ~ hit /\ Forward
    /\ PlanePoint # sIn /\ s = sIn

\* C5: reflect(reflect(d, nHat), nHat) = d for a unit normal nHat, where
\* reflect(d, n) = d - 2*dot(d, n)*n.
C5_ReflectInvolutive ==
    /\ pc = "reflected" => d = VSub(dIn, VScale(nHat, RMul(R(2), dot(dIn, nHat))))
    /\ pc = "reflected2" => d = dIn

\* a direction reflected twice about a normal it is not parallel to
C5_Witness ==
    /\ pc = "reflected2" /\ d = dIn
    /\ nHat = <<R(0), <<4, 5>>, <<-3, 5>>>>
    /\ ~ RIsZero(dNIn)
    /\ reflect(dIn, nHat) # dIn

\* C10: with nHat replaced by -nHat, intersectDisc returns the same boolean
\* and writes the same point to s, and reflect gives the same direction: the
\* disc reflects rays from either side alike.
C10_TwoSided ==
    Tested =>
        /\ IntersectDisc(sIn, dIn, c, VNeg(nHat), r).hit = hit
        /\ IntersectDisc(sIn, dIn, c, VNeg(nHat), r).s = s
        /\ pc = "reflected" => reflect(dIn, VNeg(nHat)) = d

\* a hit by a ray travelling along the normal (from the back), then reflected
C10_Witness ==
    /\ pc = "reflected" /\ hit
    /\ RLess(R(0), dNIn)
    /\ d # dIn

-----------------------------------------------------------------------------
(* SpecFrag: the fragment shader's main, for camera positions and pixels drawn
   from bounded sets *)

\* camera.position: (0,0,5) after init (line 42), then wherever the orbit
\* controls put it
Cameras ==
    {Vec(0, 0, 5), Vec(5, 0, 0), Vec(-5, 0, 0), Vec(0, 5, 0), Vec(3, 4, 0), Vec(4, 0, -3)}

\* integer points of the sphere of radius 10 about the origin (line 63)
SpherePoints ==
    {p \in {Vec(x, y, z) : x \in {-10, -8, -6, 0, 6, 8, 10},
                           y \in {-10, -8, -6, 0, 6, 8, 10},
                           z \in {-10, -8, -6, 0, 6, 8, 10}} : dot(p, p) = R(100)}

\* the points a pixel's varying is drawn from: the sphere's, and the points
\* next to a camera
IntersectionPoints == SpherePoints \cup {VAdd(cam, g) : cam \in Cameras, g \in Grid(MaxCoord)}

InitFrag ==
    /\ pc = "start"
    /\ cameraPosition \in Cameras
    /\ intersectionPoint \in IntersectionPoints
    /\ s = Origin /\ d = Origin /\ sIn = Origin /\ dIn = Origin
    /\ c = discCentre /\ nHat = discNormal /\ r = discRadius
    /\ hit = FALSE /\ divisors = {} /\ tex = NoTex
    /\ HostUnloaded

\* main, lines 166-182
FragMain ==
    /\ pc = "start"
    /\ LET m == Main(cameraPosition, intersectionPoint)
       IN  /\ s' = m.s /\ d' = m.d /\ hit' = m.hit /\ divisors' = m.divisors
    /\ sIn' = cameraPosition
    /\ dIn' = VSub(intersectionPoint, cameraPosition)
    /\ pc' = "lookup"
    /\ UNCHANGED <<c, nHat, r, tex, intersectionPoint, cameraPosition, hostVars>>

\* main, line 185: gl_FragColor = getColorOfBackground( d )
FragSample ==
    /\ pc = "lookup"
    /\ tex' \in GetColorOfBackground(d)
    /\ pc' = "done"
    /\ UNCHANGED <<s, d, c, nHat, r, sIn, dIn, hit, divisors, intersectionPoint,
                   cameraPosition, hostVars>>

NextFrag == FragMain \/ FragSample

SpecFrag == InitFrag /\ [][NextFrag]_vars

\* C6: with s = cameraPosition, d = intersectionPoint - cameraPosition and the
\* disc (3,0,0), (1,0,0), 1, the direction handed to getColorOfBackground is
\* d - 2*dot(d, nHat)*nHat if intersectDisc reports a hit and d otherwise; the
\* moved start point plays no part in the lookup.  The camera (5,0,0) with d =
\* (-1,0,0) hits at (3,0,0) and samples along (1,0,0); with d = (0,1,0) it does
\* not hit and samples along (0,1,0).
C6_LookupDirection ==
    LET d0 == VSub(intersectionPoint, cameraPosition)
        res == IntersectDisc(cameraPosition, d0, Vec(3, 0, 0), Vec(1, 0, 0), R(1))
        want == IF res.hit THEN <<RSub(R(0), d0[1]), d0[2], d0[3]>> ELSE d0
    IN  /\ pc \in {"lookup", "done"} =>
              /\ hit = res.hit
              /\ d = want
              /\ want = IF res.hit
                        THEN VSub(d0, VScale(Vec(1, 0, 0), RMul(R(2), dot(d0, Vec(1, 0, 0)))))
                        ELSE d0
              /\ (cameraPosition = Vec(5, 0, 0) /\ d0 = Vec(-1, 0, 0))
                    => (hit /\ s = Vec(3, 0, 0) /\ d = Vec(1, 0, 0))
              /\ (cameraPosition = Vec(5, 0, 0) /\ d0 = Vec(0, 1, 0))
                    => (~ hit /\ d = Vec(0, 1, 0))
        /\ pc = "done" => tex \in GetColorOfBackground(want)

\* a pixel that sees the mirror off-axis: its ray is moved to the disc and its
\* direction reflected before the lookup
C6_Witness ==
    /\ pc = "done" /\ hit
    /\ s # cameraPosition
    /\ d # VSub(intersectionPoint, cameraPosition)
    /\ d[2] # R(0)

\* C7: for every non-zero direction d, getColorOfBackground samples at
\* (phi/(2*PI), 1 - theta/PI) with phi = atan(d.z, d.x) + PI and theta =
\* acos(d.y/|d|), and both coordinates lie in [0,1].
C7_SampleInRange ==
    (pc = "done" /\ d # Origin) =>
        /\ tex.u.p = 1 /\ tex.u.q = 2 /\ tex.u.angle \in atan(d[3], d[1])
        /\ tex.v.p = 0 /\ tex.v.q = 1
        /\ InUnit(tex.u)
        /\ InUnit(tex.v)

-----------------------------------------------------------------------------
(* SpecApp: the host program: init(), animate() and the animation loop *)

Globals ==
    {"scene", "renderer", "camera", "raytracingShaderMaterial", "sphere", "cube", "orbitControls"}

\* the pixels whose colour the model follows: points of the sphere
Pixels == {Vec(10, 0, 0), Vec(-10, 0, 0), Vec(0, 10, 0), Vec(6, 0, 8)}

\* cube.rotation.x += 0.01
RotationStep == <<1, 100>>

\* variant: the cube is added to the scene as well
InitCall_CubeAdded ==
    /\ pcTop = "load"
    /\ assigned' = Globals
    /\ cameraPosition' = Vec(0, 0, 5)
    /\ cubeRotation' = [x |-> R(0), y |-> R(0)]
    /\ scene' = {"cube", "sphere"}
    /\ pcTop' = "inited"
    /\ UNCHANGED <<shaderVars, pending, ticks, renders, frame>>

\* init(), called at line 31 (lines 34-69)
InitCall ==
    /\ pcTop = "load"
    /\ assigned' = Globals                         \* lines 35, 36, 45, 55, 60, 64, 192
    /\ cameraPosition' = Vec(0, 0, 5)              \* line 42
    /\ cubeRotation' = [x |-> R(0), y |-> R(0)]    \* line 55: a new Mesh is unrotated
    /\ scene' = {"sphere"}                         \* line 65; line 57 is commented out
    /\ pcTop' = "inited"
    /\ UNCHANGED <<shaderVars, pending, ticks, renders, frame>>

\* renderer.render( scene, camera ): every pixel of a visible sphere is shaded
\* by the fragment shader with the camera's current position
Render ==
    IF "sphere" \in scene
    THEN [p \in Pixels |-> Main(cameraPosition, p).d]
    ELSE NoFrame

\* variant: a tick that requests two further frames
Animate_TwoRequests(pend) ==
    /\ {"cube", "renderer", "scene", "camera"} \subseteq assigned
    /\ pending' = pend + 2
    /\ cubeRotation' = [x |-> RAdd(cubeRotation.x, RotationStep),
                        y |-> RAdd(cubeRotation.y, RotationStep)]
    /\ renders' = renders + 1
    /\ frame' = Render
    /\ ticks' = ticks + 1

\* one invocation of animate (lines 71-80), with pend callbacks pending as it
\* starts
Animate(pend) ==
    /\ {"cube", "renderer", "scene", "camera"} \subseteq assigned
    /\ pending' = pend + 1                                             \* line 72
    /\ cubeRotation' = [x |-> RAdd(cubeRotation.x, RotationStep),      \* line 74
                        y |-> RAdd(cubeRotation.y, RotationStep)]      \* line 75
    /\ renders' = renders + 1                                          \* line 79
    /\ frame' = Render
    /\ ticks' = ticks + 1

\* animate(), called at line 32
TopLevelAnimate ==
    /\ pcTop = "inited"
    /\ Animate(pending)
    /\ pcTop' = "loop"
    /\ UNCHANGED <<shaderVars, cameraPosition, assigned, scene>>

\* the browser runs the pending requestAnimationFrame callback
AnimationFrame ==
    /\ pcTop = "loop"
    /\ pending > 0
    /\ ticks < MaxTicks
    /\ Animate(pending - 1)
    /\ UNCHANGED <<shaderVars, cameraPosition, assigned, scene, pcTop>>

\* the orbit controls (lines 191-202) move the camera on user input
OrbitChange ==
    /\ pcTop = "loop"
    /\ "orbitControls" \in assigned
    /\ cameraPosition' \in Cameras \ {cameraPosition}
    /\ UNCHANGED <<shaderVars, hostVars>>

InitApp ==
    /\ ShaderIdle
    /\ cameraPosition = Origin
    /\ HostUnloaded

NextApp == InitCall \/ TopLevelAnimate \/ AnimationFrame \/ OrbitChange

SpecApp == InitApp /\ [][NextApp]_vars

\* C8: every animation tick issues exactly one render call and schedules
\* exactly one further tick, so at most one animate callback is pending and
\* the render calls number the ticks run; the first tick runs only after
\* init() has assigned scene, camera, renderer and cube.
C8_OneRenderOneRequestPerTick ==
    /\ [](/\ pending <= 1
          /\ renders = ticks
          /\ ticks > 0 => (/\ pcTop = "loop" /\ pending = 1
                           /\ {"scene", "camera", "renderer", "cube"} \subseteq assigned))
    /\ [][ticks' # ticks => (/\ ticks' = ticks + 1
                             /\ renders' = renders + 1
                             /\ pending' = 1
                             /\ pcTop # "load")]_vars

\* three ticks run: the top-level call and two callbacks
C8_Witness ==
    /\ ticks = 3 /\ renders = 3 /\ pending = 1 /\ pcTop = "loop"

=============================================================================
